---- MODULE Spec2Model ----
(***************************************************************************)
(* ftx-history-collector: the pagination cursor (futures::stream::unfold   *)
(* over RequestCursor) and the date-partitioned writer (fold over          *)
(* WriterCursor) of src/main.rs, as one state machine.                     *)
(*                                                                         *)
(* Time is counted in ticks (the sub-second unit of DateTime).  A fill is  *)
(* identified by its id i \in 1..Len(fills) and fills[i] is its time.      *)
(* An Option<T> is the set {} (None) or {x} (Some(x)).                     *)
(***************************************************************************)
EXTENDS Integers, Sequences, FiniteSets

\* ---------------------------------------------------------------- bounds
NumFills == 3          \* at most this many fills exist on the exchange
NumSecs == 4           \* fills happen in the seconds 0..NumSecs-1
MaxPageLimit == 2      \* the exchange's page size is drawn from 1..MaxPageLimit

\* ------------------------------------------------- scaled program units
TicksPerSec == 2       \* sub-second resolution of DateTime (scaled)
SecPerDay == 2         \* seconds between two and_hms(0, 0, 0) (scaled)
TicksPerDay == TicksPerSec * SecPerDay

Ticks == 0 .. (NumSecs * TicksPerSec - 1)
\* the days the history touches, and the day after
NumDays == (NumSecs + SecPerDay - 1) \div SecPerDay
DateArgs == 0 .. NumDays
TZOffsets == {-1, 0, 1}     \* offset of Local from UTC, in seconds
U64_MAX == NumFills + 1     \* u64::MAX: above every id the exchange assigned

VARIABLES
    fills,        \* the exchange's fill history: id -> time (ticks)
    pageLimit,    \* the exchange's page size ("up to 5000 fills")
    tzOffset,     \* offset of the Local timezone, seconds east of UTC
    today,        \* Utc::now().naive_utc().date()
    argStart,     \* Args.start : Option<NaiveDate>
    argEnd,       \* Args.end   : Option<NaiveDate>
    pc,           \* position of main
    cursor,       \* RequestCursor of the unfold
    pending,      \* fills of the current page not yet folded (flat_map)
    wcursor,      \* Option<WriterCursor>: accumulator of the fold
    files,        \* the output directory: date -> rows (ids) of the file
    requests,     \* history: end_time of every get_fills call
    rawLens,      \* history: length of every page get_fills returned
    lastRaw,      \* history: the fills of the last page get_fills returned
    emitted,      \* history: ids yielded by the unfold, in order
    opened,       \* history: dates passed to new_writer, in order
    written,      \* history: rows serialized, [id, date of the sink]
    sinkLog       \* history: what main does to sinks, [op, date]; op is
                  \* "open" (new_writer) or "drop" (the writer goes out of scope)

vars == <<fills, pageLimit, tzOffset, today, argStart, argEnd, pc, cursor,
          pending, wcursor, files, requests, rawLens,
          lastRaw, emitted, opened, written, sinkLog>>

env == <<fills, pageLimit, tzOffset, today, argStart, argEnd>>

hist == <<rawLens, lastRaw>>

sinks == <<wcursor, files, opened, written, sinkLog>>

\* --------------------------------------------------------------- helpers
Min(a, b) == IF a < b THEN a ELSE b

Range(s) == {s[i] : i \in DOMAIN s}

Last(s) == s[Len(s)]

\* NaiveDate::and_hms(0, 0, 0): midnight of a date, in ticks
and_hms(d) == d * TicksPerDay

\* NaiveDateTime::timestamp(): whole seconds since the epoch
timestamp(t) == t \div TicksPerSec

\* fill.time.date().naive_utc(): DateTime<Local>::date() is built from the
\* local date-time, so this is the calendar date in the Local timezone
fill_date(t) == (t + tzOffset * TicksPerSec) \div TicksPerDay

\* ------------------------------------------------------------ the source
\* ids are assigned in time order: a later fill never has a smaller id
IdsFollowTime(f) == \A i, j \in DOMAIN f : i < j => f[i] <= f[j]

Histories == UNION {[1..n -> Ticks] : n \in 0..NumFills}

\* the fills inside [start_time, end_time), both in seconds
Window(start_ts, end_ts) ==
    {i \in DOMAIN fills : start_ts * TicksPerSec <= fills[i]
                          /\ fills[i] < end_ts * TicksPerSec}

\* "FTX API returns up to 5000 fills order by time desc": the newest
\* pageLimit fills of the window, newest first; the order of fills that
\* carry the same time is the exchange's choice
Pages(start_ts, end_ts) ==
    LET W == Window(start_ts, end_ts)
        K == Min(pageLimit, Cardinality(W))
    IN {p \in [1..K -> W] :
          /\ \A i, j \in 1..K : i < j => p[i] # p[j] /\ fills[p[i]] >= fills[p[j]]
          /\ \A w \in W \ Range(p) : \A i \in 1..K : fills[w] <= fills[p[i]]}

\* a synthetic fetcher: its first page holds any distinct fills in any
\* order, at most pageLimit of them; every later page is empty
SyntheticPages ==
    IF requests # <<>> THEN {<<>>} ELSE
    UNION {{p \in [1..k -> DOMAIN fills] : \A i, j \in 1..k : i < j => p[i] # p[j]}
           : k \in 0..Min(pageLimit, Len(fills))}

\* ------------------------------------------------------------------ main
\* the validation with > in place of >=
InvalidRangeStrict == \E s \in argStart : \E e \in argEnd : s > e

\* lines 45-49: start.zip(end).map(|(start, end)| start >= end).unwrap_or(false)
InvalidRange == \E s \in argStart : \E e \in argEnd : s >= e

\* line 64
start_time == {and_hms(d) : d \in argStart}

\* an end boundary that defaults to the end of the current day
end_timeCoveringToday ==
    IF argEnd # {} THEN and_hms(CHOOSE d \in argEnd : TRUE) ELSE and_hms(today + 1)

\* lines 65-68
end_time == IF argEnd # {} THEN and_hms(CHOOSE d \in argEnd : TRUE)
            ELSE and_hms(today)

\* the filter without its start_time conjunct
KeepsIgnoringStart(i) == i < cursor.oldest_fill_id

\* the filter without its id conjunct
KeepsAnyId(i) == \A st \in start_time : st <= fills[i]

\* lines 85-92: the filter of the unfold closure
Keeps(i) == /\ i < cursor.oldest_fill_id
            /\ \A st \in start_time : st <= fills[i]

\* the next window cut at the oldest fill's time itself, without the pad
NextCursorNoPad(oldest) ==
    [end_time |-> fills[oldest], oldest_fill_id |-> oldest]

\* lines 104-108: the cursor after a page whose filtered last fill is oldest
NextCursor(oldest) ==
    [end_time |-> fills[oldest] + TicksPerSec, oldest_fill_id |-> oldest]

InitRun ==
    /\ pc = "start"
    /\ cursor = [end_time |-> 0, oldest_fill_id |-> U64_MAX]
    /\ pending = <<>>
    /\ wcursor = {}
    /\ files = <<>>
    /\ requests = <<>>
    /\ rawLens = <<>>
    /\ lastRaw = {}
    /\ emitted = <<>>
    /\ opened = <<>>
    /\ written = <<>>
    /\ sinkLog = <<>>

InitArgs ==
    /\ argStart \in {{}} \cup {{d} : d \in DateArgs}
    /\ argEnd \in {{}} \cup {{d} : d \in DateArgs}
    /\ today \in DateArgs
    \* every fill of the history is in the past
    /\ \A i \in DOMAIN fills : fills[i] \div TicksPerDay <= today
    \* the clock is read only when --end is absent
    /\ argEnd # {} => today = NumDays

Init ==
    /\ fills \in {f \in Histories : IdsFollowTime(f)}
    /\ pageLimit \in 1..MaxPageLimit
    /\ tzOffset \in TZOffsets
    /\ InitArgs
    /\ InitRun

\* lines 44-53
Validate ==
    /\ pc = "start"
    /\ pc' = IF InvalidRange THEN "exit1" ELSE "credential"
    /\ UNCHANGED <<env, cursor, pending, requests, hist, emitted, sinks>>

\* the start of the pipeline with a sink opened up front, for the end date
LoadCredentialOpeningSink ==
    /\ pc = "credential"
    /\ pc' = "fetch"
    /\ cursor' = [end_time |-> end_time, oldest_fill_id |-> U64_MAX]
    /\ files' = [x \in {end_time \div TicksPerDay} |-> <<>>]
    /\ opened' = <<end_time \div TicksPerDay>>
    /\ wcursor' = {[target_date |-> end_time \div TicksPerDay]}
    /\ sinkLog' = <<[op |-> "open", date |-> end_time \div TicksPerDay]>>
    /\ UNCHANGED <<env, pending, requests, hist, emitted, written>>

\* lines 55-74: the credential is read and the unfold gets its first cursor
LoadCredential ==
    /\ pc = "credential"
    /\ pc' = "fetch"
    /\ cursor' = [end_time |-> end_time, oldest_fill_id |-> U64_MAX]
    /\ UNCHANGED <<env, pending, requests, hist, emitted, sinks>>

\* lines 55-60: expect("failed to read / parse credential file")
CredentialFail ==
    /\ pc = "credential"
    /\ pc' = "panicked"
    /\ UNCHANGED <<env, cursor, pending, requests, hist, emitted, sinks>>

\* the log once the writer the fold holds, if any, has gone out of scope
Dropped ==
    IF wcursor = {} THEN sinkLog
    ELSE Append(sinkLog, [op |-> "drop", date |-> (CHOOSE w \in wcursor : TRUE).target_date])

\* the closure asking again for the same window when a page that held
\* fills yields none
OnPageRetrying(page) ==
    LET kept == SelectSeq(page, Keeps)
    IN /\ requests' = Append(requests, timestamp(cursor.end_time))
       /\ rawLens' = Append(rawLens, Len(page))
       /\ lastRaw' = Range(page)
       /\ IF kept # <<>>
          THEN /\ cursor' = NextCursor(Last(kept))
               /\ pending' = kept
               /\ emitted' = emitted \o kept
               /\ pc' = "write"
               /\ UNCHANGED <<wcursor, sinkLog>>
          ELSE /\ pc' = IF page = <<>> THEN "done" ELSE "fetch"
               /\ wcursor' = IF page = <<>> THEN {} ELSE wcursor
               /\ sinkLog' = IF page = <<>> THEN Dropped ELSE sinkLog
               /\ UNCHANGED <<cursor, pending, emitted>>
       /\ UNCHANGED <<env, files, opened, written>>

\* lines 82-111: what the unfold closure does with a page get_fills returned
OnPage(page) ==
    LET kept == SelectSeq(page, Keeps)
    IN /\ requests' = Append(requests, timestamp(cursor.end_time))
       /\ rawLens' = Append(rawLens, Len(page))
       /\ lastRaw' = Range(page)
       /\ IF kept # <<>>
          THEN /\ cursor' = NextCursor(Last(kept))
               /\ pending' = kept
               /\ emitted' = emitted \o kept
               /\ pc' = "write"
               /\ UNCHANGED <<wcursor, sinkLog>>
          ELSE \* next_cursor is None: the stream ends, the fold returns,
               \* its accumulator is dropped (line 149) and main returns
               /\ pc' = "done"
               /\ wcursor' = {}
               /\ sinkLog' = Dropped
               /\ UNCHANGED <<cursor, pending, emitted>>
       /\ UNCHANGED <<env, files, opened, written>>

\* the request windowed from the start boundary instead of the epoch
FetchPageFromStart ==
    /\ pc = "fetch"
    /\ \E page \in Pages(IF start_time = {} THEN 0
                         ELSE timestamp(CHOOSE st \in start_time : TRUE),
                         timestamp(cursor.end_time)) : OnPage(page)

\* line 81: get_fills(0, end_time.timestamp(), ..) answered by the exchange
FetchPage ==
    /\ pc = "fetch"
    /\ \E page \in Pages(0, timestamp(cursor.end_time)) : OnPage(page)

\* line 81 answered by a synthetic fetcher
FetchSynthetic ==
    /\ pc = "fetch"
    /\ \E page \in SyntheticPages : OnPage(page)

\* a failed request that is asked again
FetchFailRetrying ==
    /\ pc = "fetch"
    /\ pc' = "fetch"
    /\ requests' = Append(requests, timestamp(cursor.end_time))
    /\ UNCHANGED <<env, cursor, pending, hist, emitted, sinks>>

\* lines 83, 160-184: get_fills returns Err, expect("failed to request")
FetchFail ==
    /\ pc = "fetch"
    /\ pc' = "panicked"
    /\ requests' = Append(requests, timestamp(cursor.end_time))
    \* the panic unwinds main: the accumulator of the fold is dropped
    /\ wcursor' = {}
    /\ sinkLog' = Dropped
    /\ UNCHANGED <<env, cursor, pending, files, hist, emitted, opened, written>>

\* a writer that is never kept
ReusesNever(d) == FALSE

\* lines 124-130: the open writer is kept iff its date is the fill's date
Reuses(d) == \E w \in wcursor : w.target_date = d

\* the new sink opened while the writer of the other date is still held
ReplaceSinkOpeningFirst(d) ==
    LET log == Append(sinkLog, [op |-> "open", date |-> d])
    IN IF wcursor = {} THEN log
       ELSE Append(log, [op |-> "drop", date |-> (CHOOSE w \in wcursor : TRUE).target_date])

\* lines 118-139: the and_then closure drops the writer of another date
\* before unwrap_or_else calls new_writer
ReplaceSink(d) == Append(Dropped, [op |-> "open", date |-> d])

\* lines 218-238: File::create makes the file, or truncates the one there
new_writer(d) == [x \in DOMAIN files \cup {d} |-> IF x = d THEN <<>> ELSE files[x]]

\* a sink that puts each new row above the rows it holds
serializeOnTop(fs, d, i) == [fs EXCEPT ![d] = <<i>> \o @]

\* lines 140-143: writer.serialize(&fill) appends one row
serialize(fs, d, i) == [fs EXCEPT ![d] = Append(@, i)]

\* a fold that hands control back to the unfold after every record
WriteFillThenFetch ==
    /\ pc = "write"
    /\ LET i == Head(pending)
           d == fill_date(fills[i])
       IN /\ files' = serialize(IF Reuses(d) THEN files ELSE new_writer(d), d, i)
          /\ opened' = IF Reuses(d) THEN opened ELSE Append(opened, d)
          /\ written' = Append(written, [id |-> i, date |-> d])
          /\ wcursor' = {[target_date |-> d]}
          /\ sinkLog' = IF Reuses(d) THEN sinkLog ELSE ReplaceSink(d)
    /\ pending' = Tail(pending)
    /\ pc' = "fetch"
    /\ UNCHANGED <<env, cursor, requests, hist, emitted>>

\* lines 116-148: one step of the fold
WriteFill ==
    /\ pc = "write"
    /\ LET i == Head(pending)
           d == fill_date(fills[i])
       IN /\ files' = serialize(IF Reuses(d) THEN files ELSE new_writer(d), d, i)
          /\ opened' = IF Reuses(d) THEN opened ELSE Append(opened, d)
          /\ written' = Append(written, [id |-> i, date |-> d])
          /\ wcursor' = {[target_date |-> d]}
          /\ sinkLog' = IF Reuses(d) THEN sinkLog ELSE ReplaceSink(d)
    /\ pending' = Tail(pending)
    /\ pc' = IF Tail(pending) = <<>> THEN "fetch" ELSE "write"
    /\ UNCHANGED <<env, cursor, requests, hist, emitted>>

\* lines 133-138: new_writer returns Err, expect("failed to open a new file")
OpenFail ==
    /\ pc = "write"
    /\ ~Reuses(fill_date(fills[Head(pending)]))
    /\ pc' = "panicked"
    /\ wcursor' = {}
    /\ sinkLog' = Dropped
    /\ UNCHANGED <<env, cursor, pending, files, requests, hist, emitted,
                   opened, written>>

\* a failed serialize whose record is skipped and the fold goes on
SerializeFailSkipping ==
    /\ pc = "write"
    /\ LET d == fill_date(fills[Head(pending)])
       IN /\ files' = IF Reuses(d) THEN files ELSE new_writer(d)
          /\ opened' = IF Reuses(d) THEN opened ELSE Append(opened, d)
          /\ wcursor' = {[target_date |-> d]}
          /\ sinkLog' = IF Reuses(d) THEN sinkLog ELSE ReplaceSink(d)
    /\ pending' = Tail(pending)
    /\ pc' = IF Tail(pending) = <<>> THEN "fetch" ELSE "write"
    /\ UNCHANGED <<env, cursor, requests, hist, emitted, written>>

\* lines 140-143: serialize returns Err, expect("failed to write data to file")
SerializeFail ==
    /\ pc = "write"
    /\ LET d == fill_date(fills[Head(pending)])
       IN /\ files' = IF Reuses(d) THEN files ELSE new_writer(d)
          /\ opened' = IF Reuses(d) THEN opened ELSE Append(opened, d)
          \* the panic unwinds the closure: its writer is dropped
          /\ sinkLog' = Append(IF Reuses(d) THEN sinkLog ELSE ReplaceSink(d),
                               [op |-> "drop", date |-> d])
    /\ pc' = "panicked"
    /\ wcursor' = {}
    /\ UNCHANGED <<env, cursor, pending, requests, hist, emitted, written>>

Next ==
    \/ Validate
    \/ LoadCredential
    \/ CredentialFail
    \/ FetchPage
    \/ FetchFail
    \/ WriteFill
    \/ OpenFail
    \/ SerializeFail

Spec == Init /\ [][Next]_vars

\* the same program fed by a synthetic fetcher: the fills carry any ids,
\* each at midnight of some day, and no date argument is given
InitSynthetic ==
    /\ fills \in UNION {[1..n -> {and_hms(d) : d \in 0..(NumDays - 1)}] : n \in 0..NumFills}
    /\ pageLimit = NumFills
    /\ tzOffset \in TZOffsets
    /\ argStart = {}
    /\ argEnd = {}
    /\ today = NumDays
    /\ InitRun

NextSynthetic ==
    \/ Validate
    \/ LoadCredential
    \/ CredentialFail
    \/ FetchSynthetic
    \/ FetchFail
    \/ WriteFill
    \/ OpenFail
    \/ SerializeFail

SpecSynthetic == InitSynthetic /\ [][NextSynthetic]_vars

\* a fetcher that answers every request with any distinct fills in any
\* order, at most pageLimit of them
AnyPages ==
    UNION {{p \in [1..k -> DOMAIN fills] : \A i, j \in 1..k : i < j => p[i] # p[j]}
           : k \in 0..Min(pageLimit, Len(fills))}

\* line 81 answered by that fetcher
FetchAny ==
    /\ pc = "fetch"
    /\ \E page \in AnyPages : OnPage(page)

NextAny ==
    \/ Validate
    \/ LoadCredential
    \/ CredentialFail
    \/ FetchAny
    \/ FetchFail
    \/ WriteFill
    \/ OpenFail
    \/ SerializeFail

\* the cursor reads nothing of a fill but its id when no start date is
\* given: every fill is put at the epoch, and no date argument is given
InitAny ==
    /\ fills \in {[i \in 1..n |-> 0] : n \in 0..NumFills}
    /\ pageLimit \in 1..MaxPageLimit
    /\ tzOffset = 0
    /\ argStart = {}
    /\ argEnd = {}
    /\ today = NumDays
    /\ InitRun

\* the executor keeps polling the one future of main until it completes
SpecAnyPages == InitAny /\ [][NextAny]_vars /\ WF_vars(NextAny)

\* ----------------------------------------------------------------- claims
Emitted == Range(emitted)

Count(seq, x) == Cardinality({k \in DOMAIN seq : seq[k] = x})

SameSecond(i, j) == timestamp(fills[i]) = timestamp(fills[j])

\* the fill lies in [start boundary, end boundary)
InBounds(i) ==
    /\ \A d \in argStart : d * TicksPerDay <= fills[i]
    /\ fills[i] < (IF argEnd = {} THEN today ELSE CHOOSE d \in argEnd : TRUE) * TicksPerDay

\* C1: within one run the sequence of fills emitted by the cursor never
\* holds two records with the same id, whatever pages (newest first, at
\* most pageLimit fills of the window) the fetcher returns.
C1_NoDuplicateEmitted ==
    \A k, l \in DOMAIN emitted : k < l => emitted[k] # emitted[l]

\* C2: with no start bound and every fill before the end boundary, a run
\* that reaches exhaustion has emitted every fill of the history exactly
\* once, for every page size.
C2_EveryFillExactlyOnce ==
    (pc = "done" /\ argStart = {} /\ \A i \in DOMAIN fills : fills[i] < end_time)
        => \A i \in DOMAIN fills : Count(emitted, i) = 1

\* C3: no fill earlier than the inclusive start boundary, or at or after
\* the exclusive end boundary, is ever emitted, written, or in a file.
C3_OnlyInBounds ==
    /\ \A k \in DOMAIN emitted : InBounds(emitted[k])
    /\ \A k \in DOMAIN written : InBounds(written[k].id)
    /\ \A d \in DOMAIN files : \A k \in DOMAIN files[d] : InBounds(files[d][k])

\* C3 witness: a finished run that wrote a fill although the history also
\* holds a fill outside the boundaries.
C3_Witness ==
    /\ pc = "done"
    /\ written # <<>>
    /\ \E i \in DOMAIN fills : ~InBounds(i)

\* C4: two fills in the same second with different ids are both emitted
\* even when a page split falls between them: a finished run that emitted
\* one fill of a second emitted every fill of that second.
C4_SameSecondSiblings ==
    pc = "done" =>
        \A i, j \in DOMAIN fills : (SameSecond(i, j) /\ i \in Emitted) => j \in Emitted

\* C5: fills arriving with dates A, B, A leave exactly two files, the file
\* of A holding the first and the third record and the file of B the
\* second: returning to an earlier date appends to what was written.
C5_ReturnToEarlierDateAppends ==
    (/\ pc = "done"
     /\ Len(written) = 3
     /\ written[1].date = written[3].date
     /\ written[1].date # written[2].date)
        => /\ DOMAIN files = {written[1].date, written[2].date}
           /\ files[written[1].date] = <<written[1].id, written[3].id>>
           /\ files[written[2].date] = <<written[2].id>>

\* the k-th written row is the first, or its date differs from the row before
DateChanges(k) == k = 1 \/ written[k].date # written[k - 1].date

ChangesUpTo(k) == Cardinality({j \in 1..k : DateChanges(j)})

\* C6: every emitted fill is written exactly once, in arrival order, to
\* the sink of its calendar date; a sink is opened exactly for the first
\* fill and for every fill whose date differs from the fill before it, and
\* the open sink is reused otherwise.
C6_WrittenOncePerDateSink ==
    /\ Len(written) <= Len(emitted)
    /\ \A k \in DOMAIN written :
          /\ written[k].id = emitted[k]
          /\ written[k].date = (fills[emitted[k]] + tzOffset * TicksPerSec) \div TicksPerDay
    /\ pc # "panicked" =>
          /\ Len(written) + Len(pending) = Len(emitted)
          /\ \A k \in DOMAIN pending : pending[k] = emitted[Len(written) + k]
          /\ Len(opened) = ChangesUpTo(Len(written))
          /\ \A k \in DOMAIN written : DateChanges(k) => opened[ChangesUpTo(k)] = written[k].date
          /\ written # <<>> =>
                /\ pc # "done" => wcursor = {[target_date |-> written[Len(written)].date]}
                /\ Last(files[written[Len(written)].date]) = written[Len(written)].id
    /\ pc = "done" => Len(written) = Len(emitted)

\* C6 witness: a finished run of three fills that reused a sink once and
\* changed sink once.
C6_Witness ==
    /\ pc = "done"
    /\ Len(written) = 3
    /\ Len(opened) = 2

\* C7: a run whose start boundary is at or after its end boundary, given
\* or defaulted, is rejected: it never ends normally, and no fetch and no
\* sink open ever happens in it.
C7_AnyEmptyRangeRejected ==
    (\E s \in argStart : s * TicksPerDay >= end_time)
        => pc # "done" /\ requests = <<>> /\ opened = <<>>

\* C7, amended: a run given both --start and --end with start >= end is
\* rejected before any fetch or sink open; a run without --end is never
\* rejected, and when its start is at or after the default end it emits
\* nothing.
C7_GivenEmptyRangeRejected ==
    /\ (\E s \in argStart : \E e \in argEnd : s >= e)
          => /\ pc \in {"start", "exit1"}
             /\ requests = <<>> /\ opened = <<>> /\ files = <<>>
    /\ argEnd = {} => pc # "exit1"
    /\ (argEnd = {} /\ \E s \in argStart : s >= today)
          => emitted = <<>> /\ opened = <<>>

\* C7 witness: a run given equal start and end dates has exited with status 1.
C7_Witness ==
    /\ pc = "exit1"
    /\ argStart = argEnd

\* C8: when the first page is empty the run issues exactly that one fetch,
\* emits nothing, opens no sink and ends normally.
C8_EmptyFirstPage ==
    (rawLens # <<>> /\ rawLens[1] = 0)
        => /\ pc = "done"
           /\ Len(requests) = 1 /\ Len(rawLens) = 1
           /\ emitted = <<>> /\ written = <<>>
           /\ opened = <<>> /\ files = <<>> /\ wcursor = {}

\* C8 witness: the first page was empty although the exchange holds fills.
C8_Witness ==
    /\ rawLens = <<0>>
    /\ fills # <<>>

\* the filter of the closure, on a fill of a page
Filtered(i) ==
    \/ i >= cursor.oldest_fill_id
    \/ \E d \in argStart : fills[i] < d * TicksPerDay

\* C9: a page that is not empty but whose every record the filter removes
\* ends the sequence: nothing is emitted from it, the cursor is not
\* replaced, and no fetch is ever issued after it.
C9_AllFilteredTerminates ==
    [][/\ (/\ Len(rawLens') = Len(rawLens) + 1
           /\ lastRaw' # {}
           /\ \A i \in lastRaw' : Filtered(i))
             => /\ pc' = "done"
                /\ emitted' = emitted /\ pending' = pending /\ cursor' = cursor
       /\ pc = "done" => requests' = requests /\ emitted' = emitted]_vars

\* C9 witness: a run ended on a page that held fills, after it had
\* emitted fills from an earlier page.
C9_Witness ==
    /\ pc = "done"
    /\ emitted # <<>>
    /\ lastRaw # {}

\* C10: a failed fetch is fatal: the run panics, no fill is emitted, no
\* sink is opened or written, the files stay as they were, and no fetch
\* follows.
C10_FetchFailureFatal ==
    [][/\ (Len(requests') = Len(requests) + 1 /\ rawLens' = rawLens)
             => /\ pc' = "panicked"
                /\ emitted' = emitted /\ files' = files
                /\ opened' = opened /\ written' = written
       /\ pc = "panicked"
             => /\ requests' = requests /\ emitted' = emitted /\ files' = files
                /\ opened' = opened /\ written' = written]_vars

\* C10 witness: a fetch failed after rows had been written.
C10_Witness ==
    /\ pc = "panicked"
    /\ Len(requests) > Len(rawLens)
    /\ written # <<>>

\* C11: a failure to open a sink or to write a record aborts the run at
\* once: the run panics, no later fill is written, no later fetch is
\* issued, and the file of every date other than the failing fill's keeps
\* its rows, as does the file of the open sink when that sink was reused.
C11_SinkFailureFatal ==
    [][/\ (pc = "write" /\ written' = written)
             => /\ pc' = "panicked"
                /\ requests' = requests /\ emitted' = emitted
                /\ \A d \in DOMAIN files :
                      (\/ d # (fills[Head(pending)] + tzOffset * TicksPerSec) \div TicksPerDay
                       \/ wcursor = {[target_date |-> d]})
                          => d \in DOMAIN files' /\ files'[d] = files[d]
       /\ pc = "panicked"
             => /\ written' = written /\ requests' = requests
                /\ files' = files /\ opened' = opened]_vars

\* C11 witness: a sink failed on a later date after a file of an earlier
\* date had got its rows, with fills of the page still unwritten.
C11_Witness ==
    /\ pc = "panicked"
    /\ Len(requests) = Len(rawLens)
    /\ pending # <<>>
    /\ \E d \in DOMAIN files : files[d] # <<>>
    /\ \E k \in DOMAIN written :
          written[k].date # (fills[Head(pending)] + tzOffset * TicksPerSec) \div TicksPerDay

\* sinks held after the first k operations of the log
Held(k) ==
    Cardinality({j \in 1..k : sinkLog[j].op = "open"})
        - Cardinality({j \in 1..k : sinkLog[j].op = "drop"})

EndDate == IF argEnd = {} THEN today ELSE CHOOSE d \in argEnd : TRUE

\* the calendar date the writer files a fill under
DateOf(i) == (fills[i] + tzOffset * TicksPerSec) \div TicksPerDay

\* C13: after a finished run the files are exactly one per calendar date
\* among the fills in [start, end), each file holds as many rows as there
\* are such fills on its date, no id is in two files or twice in one, and
\* the exclusive end date has no file.
C13_OneFilePerDate ==
    pc = "done" =>
        LET In == {i \in DOMAIN fills : InBounds(i)}
        IN /\ DOMAIN files = {DateOf(i) : i \in In}
           /\ \A d \in DOMAIN files :
                 Len(files[d]) = Cardinality({i \in In : DateOf(i) = d})
           /\ \A d, e \in DOMAIN files : \A k \in DOMAIN files[d] : \A l \in DOMAIN files[e] :
                 (d # e \/ k # l) => files[d][k] # files[e][l]
           /\ EndDate \notin DOMAIN files

WrittenIds == [k \in DOMAIN written |-> written[k].id]

\* C15: the pipeline is strictly sequential: a page is requested only
\* while no record of an earlier page is waiting to be written, that is
\* when every fill emitted so far has been written; a request is one step,
\* and no step both requests a page and opens or writes a sink.
C15_StrictlySequential ==
    [][/\ requests' # requests
             => /\ pc = "fetch" /\ pending = <<>>
                /\ WrittenIds = emitted
                /\ Len(requests') = Len(requests) + 1
                /\ written' = written /\ files' = files /\ opened' = opened
       /\ (written' # written \/ opened' # opened \/ files' # files)
             => pc = "write" /\ requests' = requests /\ emitted' = emitted
       /\ emitted' = WrittenIds' \o pending']_vars

\* C15 witness: a finished run that fetched a page of two fills, wrote
\* them, and fetched twice more.
C15_Witness ==
    /\ pc = "done"
    /\ Len(requests) >= 3
    /\ \E k \in DOMAIN rawLens : rawLens[k] >= 2
    /\ Len(written) >= 3

\* C16: after a page whose filtered result is not empty, the next cursor
\* comes from the oldest fill of the filtered page, a fill whose time is
\* the earliest of that page: end_time is its time plus one second and
\* oldest_fill_id its id; the next request ends at that end_time.
C16_NextCursorFromOldest ==
    [][/\ emitted' # emitted
             => \E o \in Range(pending') :
                   /\ \A j \in Range(pending') : fills[o] <= fills[j]
                   /\ cursor'.end_time = fills[o] + TicksPerSec
                   /\ cursor'.oldest_fill_id = o
       /\ requests' # requests
             => Last(requests') = timestamp(cursor.end_time)]_vars

\* C16 witness: a second request was made after a page that kept two
\* fills of different times.
C16_Witness ==
    /\ Len(requests) >= 2
    /\ rawLens[1] >= 2
    /\ Len(emitted) >= 2
    /\ fills[emitted[1]] # fills[emitted[2]]
    /\ requests[2] = timestamp(fills[emitted[2]]) + 1

\* C17: every request starts at the epoch: the page returned is cut from
\* all the fills before the request's end bound, those before the start
\* boundary included; and the end bound of a request is never later than
\* that of the request before it, nor than the end boundary of the run.
C17_WindowOnlyShrinks ==
    /\ \A k \in DOMAIN rawLens :
          rawLens[k] = Min(pageLimit, Cardinality(Window(0, requests[k])))
    /\ \A k \in DOMAIN requests :
          /\ requests[k] <= EndDate * SecPerDay
          /\ k > 1 => requests[k] <= requests[k - 1]

\* C17 witness: with a start boundary given and a fill older than it,
\* a second request was made with an earlier end bound than the first.
C17_Witness ==
    /\ argStart # {}
    /\ \E i \in DOMAIN fills : \E st \in start_time : fills[i] < st
    /\ Len(rawLens) >= 2
    /\ requests[2] < requests[1]

\* C18: at every request after the first, oldest_fill_id of the cursor
\* is the smallest id among all the fills emitted so far.
C18_OldestIdIsSmallestEmitted ==
    emitted # <<>> =>
        /\ cursor.oldest_fill_id \in Emitted
        /\ \A i \in Emitted : cursor.oldest_fill_id <= i

\* the ids of the rows written to the sinks of date d, in order
RowsOf(d) ==
    LET rows == SelectSeq(written, LAMBDA w : w.date = d)
    IN [k \in DOMAIN rows |-> rows[k].id]

\* C19: fills are written in the order the cursor emits them, the writer
\* reorders nothing, so with pages served newest first the rows of every
\* day file are in non-increasing time order.
C19_RowsNewestFirst ==
    /\ WrittenIds = SubSeq(emitted, 1, Len(written))
    /\ \A d \in DOMAIN files :
          /\ files[d] = RowsOf(d)
          /\ \A k, l \in DOMAIN files[d] :
                k < l => fills[files[d][k]] >= fills[files[d][l]]

\* C19 witness: a finished run of at least two pages left a day file with
\* two rows of different times.
C19_Witness ==
    /\ pc = "done"
    /\ Len(rawLens) >= 3
    /\ \E d \in DOMAIN files :
          Len(files[d]) >= 2 /\ fills[files[d][1]] > fills[files[d][2]]

Ended == pc \in {"done", "panicked", "exit1"}

\* C20: the cursor always terminates on a finite history, whatever pages
\* the fetcher returns: every replacement of the cursor strictly decreases
\* oldest_fill_id, a run over N fills makes at most N + 1 successful
\* fetches, a fetch ends the run iff its filtered page is empty (so a
\* finished run has exactly one such fetch, its last), and every run ends.
C20_CursorTerminates ==
    /\ [][pc = "fetch" =>
             /\ cursor' # cursor => cursor'.oldest_fill_id < cursor.oldest_fill_id
             /\ rawLens' # rawLens =>
                   /\ emitted' # emitted <=> cursor' # cursor
                   /\ emitted' = emitted <=> pc' = "done"]_vars
    /\ [](Len(rawLens) <= Len(fills) + 1)
    /\ [](pc = "done" => rawLens # <<>> /\ pending = <<>>)
    /\ <>Ended

\* C20 witness: a run over NumFills fills finished after NumFills + 1
\* successful fetches.
C20_Witness ==
    /\ pc = "done"
    /\ Len(fills) = NumFills
    /\ Len(rawLens) = NumFills + 1

====
